---------------------------- MODULE Spec2Model ----------------------------
(***************************************************************************)
(* A model of HistoryItem (Telegram/SourceFiles/history/history_item.cpp): *)
(* the message entity of one conversation (History), its identity          *)
(* reconciliation (setRealId / sendFailed), its flag mutators and the      *)
(* read-state predicate unread().                                          *)
(*                                                                         *)
(* One History with its peer and one HistoryItem of it are modelled: every *)
(* operation of the file acts on `this` and on the owning conversation     *)
(* only.  The conversation's local-message index and the album registry    *)
(* are sets of item pointers, here subsets of {this}.                      *)
(*                                                                         *)
(* Expects(...) is a fail-fast precondition: when it does not hold the     *)
(* process aborts.  A call that violates it records its function in        *)
(* `aborted` and changes nothing else; no operation runs after that.       *)
(***************************************************************************)
EXTENDS Integers, FiniteSets, Sequences, TLC

(***************************************************************************)
(* Bounds of the model.                                                    *)
(***************************************************************************)
\* ids are drawn from -MaxMsgId..-1 (client) and 1..MaxMsgId (server)
MaxMsgId == 2

\* the HistoryItem object the model follows
this == "this"

\* album ids handed to setGroupId
MaxGroupId == 2

GroupIds == 1..MaxGroupId

(***************************************************************************)
(* Message ids.  IsClientMsgId / IsServerMsgId are declared outside this   *)
(* file; they are modelled from the specification's data model: two        *)
(* disjoint ranges, the local one negative, the server one assigned by the *)
(* backend.                                                                *)
(***************************************************************************)
IsClientMsgId(id) == id < 0

\* a slip: the first server id falls outside the server range
IsServerMsgIdOffByOne(id) == id > 1

IsServerMsgId(id) == id > 0

ClientMsgIds == {-i : i \in 1..MaxMsgId}

ServerMsgIds == 1..MaxMsgId

\* the ids a caller can hand to the constructor or to setRealId
MsgIds == ClientMsgIds \cup ServerMsgIds

\* values of a read position: everything before it has been read
ReadPositions == 1..(MaxMsgId + 1)

(***************************************************************************)
(* Flags (MTPDmessage::Flag and MTPDmessage_ClientFlag bits of _flags).    *)
(***************************************************************************)
f_sending == "f_sending"

f_failed == "f_failed"

f_clientside_unread == "f_clientside_unread"

f_out == "f_out"

f_media_unread == "f_media_unread"

Flags == {f_sending, f_failed, f_clientside_unread, f_out, f_media_unread}

(***************************************************************************)
(* The conversation's peer.                                                *)
(***************************************************************************)
Peers ==
    {[type |-> "user", self |-> TRUE, bot |-> FALSE, megagroup |-> FALSE,
      migrateTo |-> FALSE],
     [type |-> "user", self |-> FALSE, bot |-> FALSE, megagroup |-> FALSE,
      migrateTo |-> FALSE],
     [type |-> "user", self |-> FALSE, bot |-> TRUE, megagroup |-> FALSE,
      migrateTo |-> FALSE],
     [type |-> "chat", self |-> FALSE, bot |-> FALSE, megagroup |-> FALSE,
      migrateTo |-> FALSE],
     [type |-> "chat", self |-> FALSE, bot |-> FALSE, megagroup |-> FALSE,
      migrateTo |-> TRUE],
     [type |-> "channel", self |-> FALSE, bot |-> FALSE, megagroup |-> FALSE,
      migrateTo |-> FALSE],
     [type |-> "channel", self |-> FALSE, bot |-> FALSE, megagroup |-> TRUE,
      migrateTo |-> FALSE]}

VARIABLES
    peer,            \* _history->peer
    item,            \* the HistoryItem object, or NoItem before construction
    localMessages,   \* History's local-message index (set of items)
    groups,          \* owner().groups(): items registered with an album
    inboxReadBefore, \* History's server-side read position, incoming
    outboxReadBefore,\* History's server-side read position, outgoing
    events,          \* notifications delivered so far, in order
    aborted,         \* "none", or the function whose Expects() failed
    call             \* the last query evaluated: its arguments and result

vars == <<peer, item, localMessages, groups, inboxReadBefore,
          outboxReadBefore, events, aborted, call>>

\* no query has been evaluated
NoCall == [fn |-> "none"]

NoItem == [id |-> 0, flags |-> {}, groupId |-> 0, inlineKeyboard |-> 0]

Exists == item # NoItem

(***************************************************************************)
(* Notifications.  Each records what its receiver sees of the item at the  *)
(* moment it is delivered.                                                 *)
(***************************************************************************)
Seen(it, registered) ==
    [id |-> it.id, sending |-> f_sending \in it.flags,
     registered |-> registered]

Event(type, oldId, it, registered) ==
    [type |-> type, oldId |-> oldId, seen |-> Seen(it, registered)]

(***************************************************************************)
(* HistoryItem::HistoryItem.  The constructor stores id and flags as given *)
(* and registers a client-range id with the local-message index.           *)
(***************************************************************************)
\* what callers pass as flags: a message is created pending-send only with
\* a client id, and never already failed
ConstructorFlags(id) ==
    {fl \in SUBSET (Flags \ {f_failed}) :
        f_sending \in fl => IsClientMsgId(id)}

\* a slip: every constructed message is registered
ConstructorLocalMessagesAlways(local, id) == local \cup {this}

\* if (IsClientMsgId(id)) _history->registerLocalMessage(this)
ConstructorLocalMessages(local, id) ==
    IF IsClientMsgId(id) THEN local \cup {this} ELSE local

Construct(id, flags, withKeyboard) ==
    /\ aborted = "none"
    /\ ~Exists
    /\ item' = [id |-> id, flags |-> flags, groupId |-> 0,
                inlineKeyboard |-> IF withKeyboard THEN id ELSE 0]
    /\ localMessages' = ConstructorLocalMessages(localMessages, id)
    /\ UNCHANGED <<call, peer, groups, inboxReadBefore, outboxReadBefore,
                   events, aborted>>

(***************************************************************************)
(* A failed Expects(): the process aborts, nothing else changes.           *)
(***************************************************************************)
Abort(function) ==
    /\ aborted' = function
    /\ UNCHANGED <<call, peer, item, localMessages, groups, inboxReadBefore,
                   outboxReadBefore, events>>

(***************************************************************************)
(* HistoryItem::setRealId(newId)                                           *)
(***************************************************************************)
\* a slip: the pending-send precondition is missing
SetRealIdExpectsOnlyClientId(it) == IsClientMsgId(it.id)

SetRealIdExpects(it) ==
    /\ f_sending \in it.flags
    /\ IsClientMsgId(it.id)

\* a slip: the pending-send bit is left set
SetRealIdItemKeepsSending(it, newId) == [it EXCEPT !.id = newId]

\* id = newId; _flags &= ~f_sending
SetRealIdItem(it, newId) ==
    [it EXCEPT !.id = newId, !.flags = @ \ {f_sending}]

\* a slip: the wrong range predicate guards the unregistration
SetRealIdLocalMessagesWrongRange(local, id) ==
    IF IsClientMsgId(id) THEN local \ {this} ELSE local

\* if (IsServerMsgId(id)) _history->unregisterLocalMessage(this)
SetRealIdLocalMessages(local, id) ==
    IF IsServerMsgId(id) THEN local \ {this} ELSE local

\* inlineKeyboard->updateMessageId(), when the item has an inline keyboard
UpdateMessageId(it) ==
    IF it.inlineKeyboard # 0
      THEN [it EXCEPT !.inlineKeyboard = it.id]
      ELSE it

\* a slip: the repaint is requested before the id change is announced
SetRealIdEventsRepaintFirst(oldId, it, registered) ==
    <<Event("ItemRepaint", oldId, it, registered)>>
    \o <<Event("ItemIdChange", oldId, it, registered)>>
    \o (IF it.inlineKeyboard # 0
          THEN <<Event("UpdateMessageId", oldId, it, registered)>>
          ELSE <<>>)

\* the notifications setRealId delivers, in the order of the code
SetRealIdEvents(oldId, it, registered) ==
    <<Event("ItemIdChange", oldId, it, registered)>>
    \o (IF it.inlineKeyboard # 0
          THEN <<Event("UpdateMessageId", oldId, it, registered)>>
          ELSE <<>>)
    \o <<Event("ItemRepaint", oldId, it, registered)>>

SetRealId(newId) ==
    /\ aborted = "none"
    /\ Exists
    /\ IF ~SetRealIdExpects(item)
         THEN Abort("setRealId")
         ELSE LET oldId == item.id
                  it == SetRealIdItem(item, newId)
                  local == SetRealIdLocalMessages(localMessages, it.id)
              IN  /\ item' = UpdateMessageId(it)
                  /\ localMessages' = local
                  /\ events' = events
                        \o SetRealIdEvents(oldId, it, this \in local)
                  /\ UNCHANGED <<call, peer, groups, inboxReadBefore,
                                 outboxReadBefore, aborted>>

(***************************************************************************)
(* HistoryItem::sendFailed()                                               *)
(***************************************************************************)
\* a slip: the pending-send precondition is missing
SendFailedExpectsOnlyNotFailed(it) == f_failed \notin it.flags

SendFailedExpects(it) ==
    /\ f_sending \in it.flags
    /\ f_failed \notin it.flags

\* a slip: the pending-send bit is left set
SendFailedFlagsKeepSending(flags) == flags \cup {f_failed}

\* a slip: the flags are assigned instead of or-ed
SendFailedFlagsAssigned(flags) == {f_failed}

\* _flags = (_flags | f_failed) & ~f_sending
SendFailedFlags(flags) == (flags \cup {f_failed}) \ {f_sending}

\* history()->peer->isChannel()
isChannel(p) == p.type = "channel"

\* Notify::peerUpdatedDelayed(peer, ChannelLocalMessages), for a channel
SendFailedEvents(p, it, registered) ==
    IF isChannel(p)
      THEN <<Event("ChannelLocalMessages", it.id, it, registered)>>
      ELSE <<>>

SendFailed ==
    /\ aborted = "none"
    /\ Exists
    /\ IF ~SendFailedExpects(item)
         THEN Abort("sendFailed")
         ELSE LET it == [item EXCEPT !.flags = SendFailedFlags(@)]
              IN  /\ item' = it
                  /\ events' = events
                        \o SendFailedEvents(peer, it, this \in localMessages)
                  /\ UNCHANGED <<call, peer, localMessages, groups,
                                 inboxReadBefore, outboxReadBefore,
                                 aborted>>

(***************************************************************************)
(* HistoryItem::markMediaRead(), markClientSideAsRead(), setGroupId()      *)
(***************************************************************************)
\* _flags &= ~f_media_unread.  For a message that mentions the user the
\* code then erases its id from History's unread mentions and refreshes the
\* chat list entry: state of History that nothing else here reads or writes.
MarkMediaRead ==
    /\ aborted = "none"
    /\ Exists
    /\ item' = [item EXCEPT !.flags = @ \ {f_media_unread}]
    /\ UNCHANGED <<call, peer, localMessages, groups, inboxReadBefore,
                   outboxReadBefore, events, aborted>>

MarkClientSideAsRead ==
    /\ aborted = "none"
    /\ Exists
    /\ item' = [item EXCEPT !.flags = @ \ {f_clientside_unread}]
    /\ UNCHANGED <<call, peer, localMessages, groups, inboxReadBefore,
                   outboxReadBefore, events, aborted>>

\* a slip: the precondition is missing
SetGroupIdExpectsNothing(it) == TRUE

SetGroupIdExpects(it) == it.groupId = 0

SetGroupId(groupId) ==
    /\ aborted = "none"
    /\ Exists
    /\ IF ~SetGroupIdExpects(item)
         THEN Abort("setGroupId")
         ELSE /\ item' = [item EXCEPT !.groupId = groupId]
              /\ groups' = groups \cup {this}
              /\ UNCHANGED <<call, peer, localMessages, inboxReadBefore,
                             outboxReadBefore, events,
                             aborted>>

(***************************************************************************)
(* The conversation's server-side read positions (History).  They only     *)
(* advance.                                                                *)
(***************************************************************************)
ReadInbox(p) ==
    /\ aborted = "none"
    /\ p > inboxReadBefore
    /\ inboxReadBefore' = p
    /\ UNCHANGED <<call, peer, item, localMessages, groups, outboxReadBefore,
                   events, aborted>>

ReadOutbox(p) ==
    /\ aborted = "none"
    /\ p > outboxReadBefore
    /\ outboxReadBefore' = p
    /\ UNCHANGED <<call, peer, item, localMessages, groups, inboxReadBefore,
                   events, aborted>>

\* History::isServerSideUnread(item)
isServerSideUnread(it, inboxBefore, outboxBefore) ==
    IF f_out \in it.flags
      THEN it.id >= outboxBefore
      ELSE it.id >= inboxBefore

(***************************************************************************)
(* HistoryItem::unread()                                                   *)
(***************************************************************************)
\* a slip: the bot check is missing
unreadOutgoingNoBotCheck(p, it, serverSideUnread) ==
    IF p.migrateTo
      THEN FALSE
    ELSE IF IsServerMsgId(it.id)
      THEN IF ~serverSideUnread
             THEN FALSE
           ELSE IF p.type = "channel"
             THEN p.megagroup
           ELSE TRUE
    ELSE TRUE

\* a slip: the converted-chat check sits inside the server-id branch
unreadOutgoingMigrateInside(p, it, serverSideUnread) ==
    IF IsServerMsgId(it.id)
      THEN IF p.migrateTo \/ ~serverSideUnread
             THEN FALSE
           ELSE IF p.type = "user"
             THEN ~p.bot
           ELSE IF p.type = "channel"
             THEN p.megagroup
           ELSE TRUE
    ELSE TRUE

\* if (out()) { ... return true; }
unreadOutgoing(p, it, serverSideUnread) ==
    IF p.migrateTo
      THEN FALSE
    ELSE IF IsServerMsgId(it.id)
      THEN IF ~serverSideUnread
             THEN FALSE
           ELSE IF p.type = "user"
             THEN ~p.bot
           ELSE IF p.type = "channel"
             THEN p.megagroup
           ELSE TRUE
    ELSE TRUE

\* a slip: the id range is not looked at
unreadIncomingAlwaysServerSide(it, serverSideUnread) == serverSideUnread

\* the tail of unread(), reached by a message that is not outgoing
unreadIncoming(it, serverSideUnread) ==
    IF IsServerMsgId(it.id)
      THEN serverSideUnread
      ELSE f_clientside_unread \in it.flags

\* a slip: the self-chat check is missing
unreadOfNoSelfCheck(p, it, serverSideUnread) ==
    IF f_out \in it.flags
      THEN unreadOutgoing(p, it, serverSideUnread)
      ELSE unreadIncoming(it, serverSideUnread)

unreadOf(p, it, serverSideUnread) ==
    IF p.self
      THEN FALSE
    ELSE IF f_out \in it.flags
      THEN unreadOutgoing(p, it, serverSideUnread)
    ELSE unreadIncoming(it, serverSideUnread)

unread ==
    unreadOf(peer, item,
             isServerSideUnread(item, inboxReadBefore, outboxReadBefore))

(***************************************************************************)
(* The specification.                                                      *)
(***************************************************************************)
Init ==
    /\ peer \in Peers
    /\ item = NoItem
    /\ localMessages = {}
    /\ groups = {}
    /\ inboxReadBefore = 1
    /\ outboxReadBefore = 1
    /\ events = <<>>
    /\ aborted = "none"
    /\ call = NoCall

Next ==
    \/ \E id \in MsgIds : \E flags \in ConstructorFlags(id) :
          \E kbd \in BOOLEAN : Construct(id, flags, kbd)
    \/ \E newId \in MsgIds : SetRealId(newId)
    \/ SendFailed
    \/ MarkMediaRead
    \/ MarkClientSideAsRead
    \/ \E g \in GroupIds : SetGroupId(g)
    \/ \E p \in ReadPositions : ReadInbox(p)
    \/ \E p \in ReadPositions : ReadOutbox(p)

Spec == Init /\ [][Next]_vars

(***************************************************************************)
(* Properties.                                                             *)
(***************************************************************************)
\* the id-change notifications among a sequence of events
IdChanges(ev) == SelectSeq(ev, LAMBDA e : e.type = "ItemIdChange")

\* the channel-local-messages notifications among a sequence of events
LocalMessagesChanges(ev) ==
    SelectSeq(ev, LAMBDA e : e.type = "ChannelLocalMessages")

\* the step is a call this.setRealId(newId) for some newId
SetRealIdCall == \E newId \in MsgIds : SetRealId(newId)

\* C1: in every reachable state the pending-send flag and the send-failed
\* flag of the message are never both set.
C1_SendingFailedExclusive ==
    Exists => ~(f_sending \in item.flags /\ f_failed \in item.flags)

\* sendFailed() has acted on a message that was pending-send
C1_Witness ==
    /\ Exists
    /\ f_failed \in item.flags
    /\ f_sending \notin item.flags
    /\ aborted = "none"

\* C2: setRealId(newId) with a server-range newId, on a pending-send
\* message whose id oldId is provisional, leaves the message with id newId,
\* pending-send cleared, out of the local-message index, and fires exactly
\* one id-change notification, which carries oldId.
C2_SetRealIdConfirms ==
    [][\A newId \in ServerMsgIds :
          (/\ SetRealId(newId)
           /\ f_sending \in item.flags
           /\ item.id \in ClientMsgIds)
          => /\ item'.id = newId
             /\ f_sending \notin item'.flags
             /\ this \notin localMessages'
             /\ Len(IdChanges(events')) = Len(IdChanges(events)) + 1
             /\ Len(events') > Len(events)
             /\ \A i \in (Len(events) + 1)..Len(events') :
                   events'[i].type = "ItemIdChange"
                      => events'[i].oldId = item.id]_vars

\* a provisional message was confirmed with a server id
C2_Witness ==
    /\ Exists
    /\ item.id \in ServerMsgIds
    /\ Len(IdChanges(events)) = 1
    /\ IdChanges(events)[1].oldId \in ClientMsgIds
    /\ this \notin localMessages

\* C3: sendFailed() on a pending-send, not-failed message sets send-failed,
\* clears pending-send, leaves every other flag and the id unchanged, and
\* schedules one channel-local-messages notification if and only if the
\* conversation's peer is a channel.
C3_SendFailedEffect ==
    [][(/\ SendFailed
        /\ f_sending \in item.flags
        /\ f_failed \notin item.flags)
       => /\ f_failed \in item'.flags
          /\ f_sending \notin item'.flags
          /\ item'.flags \ {f_sending, f_failed}
                = item.flags \ {f_sending, f_failed}
          /\ item'.id = item.id
          /\ IF peer.type = "channel"
               THEN /\ Len(events') = Len(events) + 1
                    /\ events'[Len(events')].type = "ChannelLocalMessages"
               ELSE events' = events]_vars

\* a pending-send message of a channel failed and the notification is there
C3_Witness ==
    /\ Exists
    /\ peer.type = "channel"
    /\ f_failed \in item.flags
    /\ item.flags \ {f_failed} # {}
    /\ Len(LocalMessagesChanges(events)) = 1

\* the message was pending-send and setRealId or sendFailed has acted on it
LeftProvisional ==
    /\ Exists
    /\ \/ Len(IdChanges(events)) > 0
       \/ f_failed \in item.flags

\* the id of the message has changed before
IdHasChanged ==
    \E i \in 1..Len(events) :
       /\ events[i].type = "ItemIdChange"
       /\ events[i].oldId # events[i].seen.id

\* C4: Confirmed and Failed are terminal.  Once setRealId or sendFailed has
\* taken a message out of the Provisional state, no step changes its id or
\* its pending-send / send-failed flags, and every call of setRealId or
\* sendFailed on it fails fast, changing nothing.
C4_ConfirmedFailedTerminal ==
    [][LeftProvisional
       => /\ item'.id = item.id
          /\ (f_sending \in item'.flags) = (f_sending \in item.flags)
          /\ (f_failed \in item'.flags) = (f_failed \in item.flags)
          /\ (SetRealIdCall \/ SendFailed)
                => /\ aborted' \in {"setRealId", "sendFailed"}
                   /\ UNCHANGED <<item, localMessages, events>>]_vars

\* a reconciliation call on a message that had left Provisional failed fast
C4_Witness ==
    /\ LeftProvisional
    /\ aborted \in {"setRealId", "sendFailed"}

\* C5: sendFailed() takes effect only when pending-send is set and
\* send-failed is clear; in every other state it fails fast and changes no
\* state.
C5_SendFailedPrecondition ==
    [][SendFailed
       => IF f_sending \in item.flags /\ f_failed \notin item.flags
            THEN /\ aborted' = "none"
                 /\ f_failed \in item'.flags
            ELSE /\ aborted' = "sendFailed"
                 /\ UNCHANGED <<peer, item, localMessages, groups,
                                inboxReadBefore, outboxReadBefore,
                                events>>]_vars

\* sendFailed() was called on a message that is not pending-send
C5_Witness ==
    /\ Exists
    /\ aborted = "sendFailed"
    /\ f_sending \notin item.flags

\* C6: in every reachable state a message whose pending-send flag is set
\* has an id in the client range; no message with a server-range id,
\* constructed with it or promoted to it, is pending-send.
C6_SendingImpliesClientId ==
    Exists /\ f_sending \in item.flags => IsClientMsgId(item.id)

\* a pending-send message was promoted to a server id
C6_Witness ==
    /\ Exists
    /\ IsServerMsgId(item.id)
    /\ IdHasChanged
    /\ f_sending \notin item.flags

\* C7: the id of a message changes at most once; a change starts from a
\* client-range id; an id in the server range never changes again.
C7_IdChangesOnce ==
    [][Exists
       => /\ item'.id # item.id
                => /\ ~IdHasChanged
                   /\ IsClientMsgId(item.id)
          /\ IsServerMsgId(item.id) => item'.id = item.id]_vars

\* the id went from the client range to the server range
C7_Witness ==
    /\ Exists
    /\ IdHasChanged
    /\ IsServerMsgId(item.id)
    /\ IsClientMsgId(IdChanges(events)[1].oldId)

C9_ConstructorRegistersClientIds ==
    [][~Exists /\ Exists'
       => ((this \in localMessages') = (item'.id \in ClientMsgIds))]_vars

\* a message constructed with a client id, not pending-send, is registered
C9_Witness ==
    /\ Exists
    /\ events = <<>>
    /\ item.id \in ClientMsgIds
    /\ f_sending \notin item.flags
    /\ f_failed \notin item.flags
    /\ this \in localMessages

\* C10: unread() is false for every message of the self-chat.
C10_SelfChatAlwaysRead ==
    Exists /\ peer.self => ~unread

\* a self-chat message that every later branch of unread() would call unread
C10_Witness ==
    /\ Exists
    /\ peer.self
    /\ f_out \notin item.flags
    /\ IsClientMsgId(item.id)
    /\ f_clientside_unread \in item.flags

\* the conversation's server-side read position has not passed the message
ServerSideUnread ==
    isServerSideUnread(item, inboxReadBefore, outboxReadBefore)

\* an outgoing message with a server id, outside the self-chat
OutgoingConfirmed ==
    /\ Exists
    /\ ~peer.self
    /\ f_out \in item.flags
    /\ item.id \in ServerMsgIds

\* C11 as stated: for an outgoing message with a server id outside the
\* self-chat, unread() is false exactly when the read position has passed
\* it, or the peer is a bot, or the peer is a non-megagroup channel.
C11_Original ==
    OutgoingConfirmed
       => (~unread <=> \/ ~ServerSideUnread
                       \/ peer.bot
                       \/ peer.type = "channel" /\ ~peer.megagroup)

\* C11, amended: for an outgoing message with a server id outside the
\* self-chat, unread() is false exactly when the peer has a migrated-to
\* successor, or the read position has passed the message, or the peer is a
\* bot, or the peer is a non-megagroup channel.
C11_OutgoingConfirmedUnread ==
    OutgoingConfirmed
       => (~unread <=> \/ peer.migrateTo
                       \/ ~ServerSideUnread
                       \/ peer.bot
                       \/ peer.type = "channel" /\ ~peer.megagroup)

\* a sent message in a converted chat is read although the read position
\* has not passed it
C11_Witness ==
    /\ OutgoingConfirmed
    /\ peer.migrateTo
    /\ ServerSideUnread
    /\ ~unread

\* C12: for an outgoing message with a client id outside the self-chat,
\* unread() is false if the peer has a migrated-to successor and true
\* otherwise, whatever the read positions and the clientside-unread flag.
C12_OutgoingProvisionalUnread ==
    (/\ Exists
     /\ ~peer.self
     /\ f_out \in item.flags
     /\ item.id \in ClientMsgIds)
       => (unread <=> ~peer.migrateTo)

\* an outgoing provisional message in a converted chat, with the
\* clientside-unread flag set and the outgoing read position advanced
C12_Witness ==
    /\ Exists
    /\ peer.migrateTo
    /\ f_out \in item.flags
    /\ item.id \in ClientMsgIds
    /\ f_clientside_unread \in item.flags
    /\ outboxReadBefore > 1
    /\ ~unread

\* an incoming message outside the self-chat follows the read position when
\* its id is a server id and the clientside-unread flag when it is a client id
IncomingUnreadRule ==
    (/\ Exists
     /\ ~peer.self
     /\ f_out \notin item.flags)
       => unread = IF item.id \in ServerMsgIds
                     THEN ServerSideUnread
                     ELSE f_clientside_unread \in item.flags

\* C13: for an incoming message outside the self-chat, unread() equals the
\* conversation's isServerSideUnread when the id is a server id and the
\* clientside-unread flag when it is a client id; after
\* markClientSideAsRead() an incoming provisional message is read.
C13_IncomingUnread ==
    [][/\ IncomingUnreadRule
       /\ IncomingUnreadRule'
       /\ (/\ MarkClientSideAsRead
           /\ ~peer.self
           /\ f_out \notin item.flags
           /\ item.id \in ClientMsgIds)
             => ~unread']_vars

\* an incoming provisional message with the clientside-unread flag is
\* unread although the incoming read position has advanced
C13_Witness ==
    /\ Exists
    /\ ~peer.self
    /\ f_out \notin item.flags
    /\ item.id \in ClientMsgIds
    /\ f_clientside_unread \in item.flags
    /\ inboxReadBefore > 1
    /\ unread


\* ------------------------------------------------------------------
\* Permission predicates: canDelete() and canDeleteForEveryone(now).
\* They read the item, its peer, and values owned by collaborators
\* (virtual methods of the item, rights of the peer, Global settings).
\* The collaborators' values are the record "in" of each call.

MaxTime == 1
TimeIds == 0..MaxTime

MediaKinds == {"none", "allowsRevoke", "noRevoke"}

CanDeleteInputs(p) ==
    [isLogEntry : BOOLEAN, serviceMsg : BOOLEAN, isGroupMigrate : BOOLEAN,
     toHistoryMessage : BOOLEAN, isPost : BOOLEAN,
     canDeleteMessages : IF p.type = "channel" THEN BOOLEAN ELSE {FALSE},
     canPublish : IF p.type = "channel" THEN BOOLEAN ELSE {FALSE}]

canDeleteNoCreationMarker(p, it, in) ==
    IF in.isLogEntry \/ (~IsServerMsgId(it.id) /\ in.serviceMsg) THEN FALSE
    ELSE IF ~isChannel(p) THEN ~in.isGroupMigrate
    ELSE IF in.canDeleteMessages THEN TRUE
    ELSE IF f_out \in it.flags /\ in.toHistoryMessage
      THEN IF in.isPost THEN in.canPublish ELSE TRUE
    ELSE FALSE

canDelete(p, it, in) ==
    IF in.isLogEntry \/ (~IsServerMsgId(it.id) /\ in.serviceMsg) THEN FALSE
    ELSE IF ~isChannel(p) THEN ~in.isGroupMigrate
    ELSE IF it.id = 1 THEN FALSE
    ELSE IF in.canDeleteMessages THEN TRUE
    ELSE IF f_out \in it.flags /\ in.toHistoryMessage
      THEN IF in.isPost THEN in.canPublish ELSE TRUE
    ELSE FALSE

CanDeleteForEveryoneInputs(p) ==
    [now : TimeIds, date : TimeIds,
     RevokePrivateTimeLimit : TimeIds, RevokeTimeLimit : TimeIds,
     RevokePrivateInbox : BOOLEAN,
     isPost : BOOLEAN, toHistoryMessage : BOOLEAN, media : MediaKinds,
     isSupport : IF p.type = "user" THEN BOOLEAN ELSE {FALSE},
     amCreator : IF p.type = "chat" THEN BOOLEAN ELSE {FALSE},
     f_delete_messages : IF p.type = "chat" THEN BOOLEAN ELSE {FALSE}]

messageTooOldStrict(p, in) ==
    IF p.self THEN FALSE
    ELSE IF p.type = "user"
      THEN in.now - in.date > in.RevokePrivateTimeLimit
    ELSE in.now - in.date > in.RevokeTimeLimit

messageTooOld(p, in) ==
    IF p.self THEN FALSE
    ELSE IF p.type = "user"
      THEN in.now - in.date >= in.RevokePrivateTimeLimit
    ELSE in.now - in.date >= in.RevokeTimeLimit

revokeIncomingIgnoresSetting(p, in) ==
    IF p.type = "chat" THEN in.amCreator \/ in.f_delete_messages
    ELSE p.type = "user"

\* the branch taken when the message is not outgoing
revokeIncoming(p, in) ==
    IF p.type = "chat" THEN in.amCreator \/ in.f_delete_messages
    ELSE IF p.type = "user" THEN in.RevokePrivateInbox
    ELSE FALSE

canDeleteForEveryoneNoBotCheck(p, it, in) ==
    IF it.id < 0 \/ p.self \/ messageTooOld(p, in) \/ in.isPost THEN FALSE
    ELSE IF isChannel(p) THEN FALSE
    ELSE IF p.type # "user"
            /\ (~in.toHistoryMessage \/ in.media = "noRevoke") THEN FALSE
    ELSE IF f_out \notin it.flags THEN revokeIncoming(p, in)
    ELSE TRUE

canDeleteForEveryoneNoChannelCheck(p, it, in) ==
    IF it.id < 0 \/ p.self \/ messageTooOld(p, in) \/ in.isPost THEN FALSE
    ELSE IF p.type = "user" /\ p.bot /\ ~in.isSupport THEN FALSE
    ELSE IF p.type # "user"
            /\ (~in.toHistoryMessage \/ in.media = "noRevoke") THEN FALSE
    ELSE IF f_out \notin it.flags THEN revokeIncoming(p, in)
    ELSE TRUE

canDeleteForEveryone(p, it, in) ==
    IF it.id < 0 \/ p.self \/ messageTooOld(p, in) \/ in.isPost THEN FALSE
    ELSE IF isChannel(p) THEN FALSE
    ELSE IF p.type = "user" /\ p.bot /\ ~in.isSupport THEN FALSE
    ELSE IF p.type # "user"
            /\ (~in.toHistoryMessage \/ in.media = "noRevoke") THEN FALSE
    ELSE IF f_out \notin it.flags THEN revokeIncoming(p, in)
    ELSE TRUE

\* one evaluation of canDelete() on the item; a behaviour records one
\* query, the predicates change nothing a second query could see
CanDelete ==
    /\ call = NoCall
    /\ Exists
    /\ aborted = "none"
    /\ \E in \in CanDeleteInputs(peer) :
          call' = [fn |-> "canDelete", in |-> in,
                   result |-> canDelete(peer, item, in)]
    /\ UNCHANGED <<peer, item, localMessages, groups, inboxReadBefore,
                   outboxReadBefore, events, aborted>>

\* one evaluation of canDeleteForEveryone(now) on the item
CanDeleteForEveryone ==
    /\ call = NoCall
    /\ Exists
    /\ aborted = "none"
    /\ \E in \in CanDeleteForEveryoneInputs(peer) :
          call' = [fn |-> "canDeleteForEveryone", in |-> in,
                   result |-> canDeleteForEveryone(peer, item, in)]
    /\ UNCHANGED <<peer, item, localMessages, groups, inboxReadBefore,
                   outboxReadBefore, events, aborted>>

\* an item as its constructor leaves it, in any of the conversations
InitPermissions ==
    /\ peer \in Peers
    /\ \E id \in MsgIds, flags \in SUBSET {f_out} :
          /\ item = [id |-> id, flags |-> flags, groupId |-> 0,
                     inlineKeyboard |-> 0]
          /\ localMessages = ConstructorLocalMessages({}, id)
    /\ groups = {}
    /\ inboxReadBefore = 1
    /\ outboxReadBefore = 1
    /\ events = <<>>
    /\ aborted = "none"
    /\ call = NoCall

NextPermissions ==
    \/ CanDelete
    \/ CanDeleteForEveryone

SpecPermissions == InitPermissions /\ [][NextPermissions]_vars

\* ------------------------------------------------------------------
\* Properties of the permission predicates

Revoked == call.fn = "canDeleteForEveryone"

Age == call.in.now - call.in.date

\* the threshold of the conversation kind: one-to-one chats have their
\* own, every other conversation uses the group one
Threshold ==
    IF peer.type = "user" THEN call.in.RevokePrivateTimeLimit
    ELSE call.in.RevokeTimeLimit

\* C14: canDeleteForEveryone(now) is false for every message whose age
\* now - date() is at or beyond the threshold of its conversation kind,
\* for every threshold >= 0 and whatever the other inputs are.
C14_TooOldNotRevocable ==
    (Revoked /\ Age >= Threshold) => ~call.result

\* a message whose age equals the threshold, refused only for its age
C14_Witness ==
    /\ Revoked
    /\ Age = Threshold
    /\ Threshold > 0
    /\ ~call.result
    /\ peer.type = "chat"
    /\ item.id > 0
    /\ f_out \in item.flags
    /\ ~call.in.isPost
    /\ call.in.toHistoryMessage
    /\ call.in.media = "allowsRevoke"

\* C15: canDeleteForEveryone(now) is false whenever the id is
\* provisional, or the conversation is the self-chat, or the message is a
\* channel post, or the conversation is a one-to-one chat with a bot that
\* is not a support account, whatever the other inputs are.
C15_RevokeRefusedOutright ==
    (/\ Revoked
     /\ \/ item.id \in ClientMsgIds
        \/ peer.self
        \/ call.in.isPost
        \/ (peer.type = "user" /\ peer.bot /\ ~call.in.isSupport))
    => ~call.result

\* a fresh outgoing message to a bot, with revoking of incoming allowed
C15_Witness ==
    /\ Revoked
    /\ peer.type = "user" /\ peer.bot /\ ~call.in.isSupport
    /\ item.id \in ServerMsgIds
    /\ f_out \in item.flags
    /\ ~call.in.isPost
    /\ Age < Threshold
    /\ call.in.RevokePrivateInbox
    /\ ~call.result

\* every check canDeleteForEveryone makes before it looks at out()
PassesEarlierChecks ==
    /\ item.id >= 0
    /\ ~peer.self
    /\ Age < Threshold
    /\ ~call.in.isPost
    /\ peer.type # "channel"
    /\ ~(peer.type = "user" /\ peer.bot /\ ~call.in.isSupport)
    /\ peer.type # "user"
         => (call.in.toHistoryMessage /\ call.in.media # "noRevoke")

\* C16: for an incoming message that passes the earlier checks,
\* canDeleteForEveryone(now) is true in a basic group only if the actor is
\* the creator or holds the delete-messages right, in a one-to-one chat
\* equals the RevokePrivateInbox setting, and is false for every other
\* peer kind; for an outgoing message that passes them it is true.
C16_RevokeIncoming ==
    (Revoked /\ PassesEarlierChecks) =>
        IF f_out \in item.flags THEN call.result
        ELSE IF peer.type = "chat"
          THEN call.result
                 => (call.in.amCreator \/ call.in.f_delete_messages)
        ELSE IF peer.type = "user"
          THEN call.result = call.in.RevokePrivateInbox
        ELSE ~call.result

\* an incoming message of a one-to-one chat, refused by the setting alone
C16_Witness ==
    /\ Revoked
    /\ PassesEarlierChecks
    /\ f_out \notin item.flags
    /\ peer.type = "user"
    /\ ~call.in.RevokePrivateInbox
    /\ ~call.result

\* the decision table of canDelete() as the claim states it
CanDeleteTable ==
    IF call.in.isLogEntry
       \/ (call.in.serviceMsg /\ item.id \notin ServerMsgIds) THEN FALSE
    ELSE IF peer.type # "channel" THEN ~call.in.isGroupMigrate
    ELSE IF item.id = 1 THEN FALSE
    ELSE IF call.in.canDeleteMessages THEN TRUE
    ELSE /\ f_out \in item.flags
         /\ call.in.toHistoryMessage
         /\ (~call.in.isPost \/ call.in.canPublish)

\* C17: canDelete() equals its decision table for every input: false for
\* a log entry or a service message without a server id; else, outside
\* channels, true unless the message is a chat-migration marker; else, in
\* a channel, false for id 1, else true with channel-wide delete rights,
\* else true exactly for an outgoing content message that is not a post
\* or whose actor has publish rights.
C17_CanDeleteTable ==
    call.fn = "canDelete" => call.result = CanDeleteTable

\* the channel-creation marker, not deletable even with delete rights
C17_Witness ==
    /\ call.fn = "canDelete"
    /\ peer.type = "channel"
    /\ item.id = 1
    /\ call.in.canDeleteMessages
    /\ ~call.in.isLogEntry
    /\ ~call.result


\* ------------------------------------------------------------------
\* Classification dispatch: CheckMessageMedia and HistoryItem::Create.

\* MediaCheckResult
Good == "Good"
Unsupported == "Unsupported"
Empty == "Empty"
HasTimeToLive == "HasTimeToLive"

\* MTPMessageMedia: the variants CheckMessageMedia matches, each with the
\* sub-fields it reads
PlainMediaTypes ==
    {"messageMediaEmpty", "messageMediaContact", "messageMediaGame",
     "messageMediaInvoice", "messageMediaPoll", "messageMediaUnsupported"}

GeoMediaTypes ==
    {"messageMediaGeo", "messageMediaVenue", "messageMediaGeoLive"}

MTPMessageMedia ==
    [type : PlainMediaTypes]
    \cup [type : GeoMediaTypes, geo : {"geoPoint", "geoPointEmpty"}]
    \cup [type : {"messageMediaPhoto"},
          photo : {"absent", "photo", "photoEmpty"},
          ttl_seconds : BOOLEAN]
    \cup [type : {"messageMediaDocument"},
          document : {"absent", "document", "documentEmpty"},
          ttl_seconds : BOOLEAN]
    \cup [type : {"messageMediaWebPage"},
          webpage : {"webPage", "webPageEmpty", "webPagePending",
                     "webPageNotModified"}]

CheckMessageMediaGeo(data) ==
    IF data.geo = "geoPoint" THEN Good ELSE Empty

CheckMessageMediaPhotoBodyFirst(data) ==
    IF data.photo = "absent" THEN Empty
    ELSE IF data.ttl_seconds THEN HasTimeToLive
    ELSE IF data.photo = "photo" THEN Good
    ELSE Empty

CheckMessageMediaPhoto(data) ==
    IF data.ttl_seconds THEN HasTimeToLive
    ELSE IF data.photo = "absent" THEN Empty
    ELSE IF data.photo = "photo" THEN Good
    ELSE Empty

CheckMessageMediaDocumentBodyFirst(data) ==
    IF data.document = "absent" THEN Empty
    ELSE IF data.ttl_seconds THEN HasTimeToLive
    ELSE IF data.document = "document" THEN Good
    ELSE Empty

CheckMessageMediaDocument(data) ==
    IF data.ttl_seconds THEN HasTimeToLive
    ELSE IF data.document = "absent" THEN Empty
    ELSE IF data.document = "document" THEN Good
    ELSE Empty

CheckMessageMediaWebPageAllGood(data) == Good

CheckMessageMediaWebPage(data) ==
    IF data.webpage = "webPageNotModified" THEN Unsupported ELSE Good

CheckMessageMediaDefaultGood(media) ==
    IF media.type \in GeoMediaTypes THEN CheckMessageMediaGeo(media)
    ELSE IF media.type = "messageMediaPhoto"
      THEN CheckMessageMediaPhoto(media)
    ELSE IF media.type = "messageMediaDocument"
      THEN CheckMessageMediaDocument(media)
    ELSE IF media.type = "messageMediaWebPage"
      THEN CheckMessageMediaWebPage(media)
    ELSE Good

CheckMessageMedia(media) ==
    IF media.type \in {"messageMediaEmpty", "messageMediaContact"} THEN Good
    ELSE IF media.type \in GeoMediaTypes THEN CheckMessageMediaGeo(media)
    ELSE IF media.type = "messageMediaPhoto"
      THEN CheckMessageMediaPhoto(media)
    ELSE IF media.type = "messageMediaDocument"
      THEN CheckMessageMediaDocument(media)
    ELSE IF media.type = "messageMediaWebPage"
      THEN CheckMessageMediaWebPage(media)
    ELSE IF media.type \in {"messageMediaGame", "messageMediaInvoice",
                            "messageMediaPoll"} THEN Good
    ELSE Unsupported

\* MTPDmessage::Flags that Create's helpers touch
f_post_author == "f_post_author"
f_legacy == "f_legacy"

\* data.vmedia() of a message without media
NoMedia == [type |-> "none"]

\* the texts Create prepares itself
lng_message_unsupported == "lng_message_unsupported"
lng_message_empty == "lng_message_empty"

\* MTPMessage: message, messageService and messageEmpty
MTPMessage ==
    [ctor : {"message"}, media : MTPMessageMedia \cup {NoMedia},
     flags : SUBSET {f_post_author, f_legacy}, date : TimeIds,
     message : {"", "text"}]
    \cup [ctor : {"messageService"},
          action : {"messageActionPhoneCall", "messageActionChatCreate"},
          date : TimeIds]
    \cup [ctor : {"messageEmpty"}]

\* what Create asks Data::Session to build: the factory, whether it gets
\* the payload itself ("data") or fields Create prepared, and those fields
CreateUnsupportedMessageKeepsAuthor(flags, date) ==
    [make |-> "makeMessage", from |-> "fields",
     flags |-> flags \cup {f_legacy},
     date |-> date, text |-> lng_message_unsupported]

CreateUnsupportedMessage(flags, date) ==
    [make |-> "makeMessage", from |-> "fields",
     flags |-> (flags \ {f_post_author}) \cup {f_legacy},
     date |-> date, text |-> lng_message_unsupported]

CreateFromData(make, data) ==
    [make |-> make, from |-> "data",
     flags |-> IF data.ctor = "message" THEN data.flags ELSE {},
     date |-> data.date,
     text |-> IF data.ctor = "message" THEN data.message ELSE ""]

Create(message) ==
    IF message.ctor = "message" THEN
        LET checked == IF message.media # NoMedia
                         THEN CheckMessageMedia(message.media)
                         ELSE Good
        IN  IF checked = Unsupported
              THEN CreateUnsupportedMessage(message.flags, message.date)
            ELSE IF checked = Empty
              THEN [make |-> "makeServiceMessage", from |-> "fields",
                    flags |-> message.flags, date |-> message.date,
                    text |-> lng_message_empty]
            ELSE IF checked = HasTimeToLive
              THEN CreateFromData("makeServiceMessage", message)
            ELSE CreateFromData("makeMessage", message)
    ELSE IF message.ctor = "messageService" THEN
        IF message.action = "messageActionPhoneCall"
          THEN CreateFromData("makeMessage", message)
          ELSE CreateFromData("makeServiceMessage", message)
    ELSE [make |-> "makeServiceMessage", from |-> "fields",
          flags |-> {}, date |-> 0, text |-> lng_message_empty]

\* one classification of a media payload
CallCheckMessageMedia ==
    /\ call = NoCall
    /\ aborted = "none"
    /\ \E media \in MTPMessageMedia :
          call' = [fn |-> "CheckMessageMedia", in |-> media,
                   result |-> CheckMessageMedia(media)]
    /\ UNCHANGED <<peer, item, localMessages, groups, inboxReadBefore,
                   outboxReadBefore, events, aborted>>

\* one HistoryItem::Create(history, message)
CallCreate ==
    /\ call = NoCall
    /\ aborted = "none"
    /\ \E message \in MTPMessage :
          call' = [fn |-> "Create", in |-> message,
                   result |-> Create(message)]
    /\ UNCHANGED <<peer, item, localMessages, groups, inboxReadBefore,
                   outboxReadBefore, events, aborted>>

NextCreate ==
    \/ CallCheckMessageMedia
    \/ CallCreate

SpecCreate == Init /\ [][NextCreate]_vars

\* ------------------------------------------------------------------
\* Properties of the classification dispatch

Checked == call.fn = "CheckMessageMedia"

PhotoWithoutBody ==
    /\ Checked
    /\ call.in.type = "messageMediaPhoto"
    /\ call.in.photo \in {"absent", "photoEmpty"}

\* C18 as stated: every photo container without a photo body is Empty.
C18_Original ==
    PhotoWithoutBody => call.result = Empty

\* C18: a photo container without a photo body (field absent, or the
\* empty-photo variant) is never Good: it classifies as HasTimeToLive
\* when ttl_seconds is present and as Empty when it is not.
C18_PhotoWithoutBody ==
    PhotoWithoutBody =>
        /\ call.result # Good
        /\ call.result = IF call.in.ttl_seconds THEN HasTimeToLive
                                                ELSE Empty

\* an expired self-destructing photo: no body, ttl_seconds present
C18_Witness ==
    /\ PhotoWithoutBody
    /\ call.in.photo = "absent"
    /\ call.in.ttl_seconds
    /\ call.result = HasTimeToLive

\* C19: a webpage payload classifies as Good when the inner webpage is a
\* real page, an empty placeholder or a pending page, and as Unsupported
\* when it is the not-modified variant.
C19_WebPage ==
    (Checked /\ call.in.type = "messageMediaWebPage") =>
        /\ call.in.webpage \in {"webPage", "webPageEmpty", "webPagePending"}
             => call.result = Good
        /\ call.in.webpage = "webPageNotModified"
             => call.result = Unsupported

\* the not-modified webpage has been classified
C19_Witness ==
    /\ Checked
    /\ call.in.type = "messageMediaWebPage"
    /\ call.in.webpage = "webPageNotModified"
    /\ call.result = Unsupported

Created == call.fn = "Create"

\* Create built the ordinary content message from the payload
OrdinaryContentMessage ==
    /\ call.result.make = "makeMessage"
    /\ call.result.from = "data"

\* Create built the "unsupported" placeholder
UnsupportedPlaceholder ==
    /\ call.result.make = "makeMessage"
    /\ call.result.text = lng_message_unsupported
    /\ f_legacy \in call.result.flags
    /\ f_post_author \notin call.result.flags

\* the variant that stands for media this client does not know
UnknownMedia(media) == media.type = "messageMediaUnsupported"

\* C20 as stated: media the classifier does not know is Good and becomes
\* an ordinary content message.
C20_Original ==
    /\ (Checked /\ UnknownMedia(call.in)) => call.result = Good
    /\ (Created /\ call.in.ctor = "message" /\ UnknownMedia(call.in.media))
         => OrdinaryContentMessage

\* C20: the classifier has no default: only a message without media is
\* Good by default and becomes an ordinary content message; the variants
\* it reads no sub-field of (empty, contact, game, invoice, poll) are
\* Good; media unknown to the client (messageMediaUnsupported) classifies
\* Unsupported and becomes the "unsupported" placeholder.
C20_NoDefaultGood ==
    /\ (Checked /\ UnknownMedia(call.in)) => call.result = Unsupported
    /\ (Checked /\ call.in.type \in PlainMediaTypes /\ ~UnknownMedia(call.in))
         => call.result = Good
    /\ (Created /\ call.in.ctor = "message") =>
         /\ call.in.media = NoMedia => OrdinaryContentMessage
         /\ UnknownMedia(call.in.media) => UnsupportedPlaceholder

\* a message with unknown media and the post-author flag has been created
C20_Witness ==
    /\ Created
    /\ call.in.ctor = "message"
    /\ UnknownMedia(call.in.media)
    /\ f_post_author \in call.in.flags
    /\ UnsupportedPlaceholder


\* the message built from the payload would have no text, no media and
\* no log-entry component: isEmpty() would hold for it
ResultWouldBeEmpty ==
    /\ call.in.ctor = "message"
    /\ call.in.media = NoMedia
    /\ call.in.message = ""

\* C21: Create never constructs a content message for a payload whose
\* resulting message would be empty (no text, no media, no log-entry
\* component): such a payload becomes a placeholder or service message.
C21_NoEmptyContentMessage ==
    (Created /\ ResultWouldBeEmpty) => call.result.make # "makeMessage"

\* the classification Create works from: that of the media, Good without
Classified ==
    IF call.in.media = NoMedia THEN Good
    ELSE CheckMessageMedia(call.in.media)

ServiceMessage == call.result.make = "makeServiceMessage"

ContentMessage == call.result.make = "makeMessage"

\* C22: Create maps every payload to exactly one constructor: a message
\* classified Unsupported becomes a content message with the post-author
\* flag cleared and the legacy flag set; classified Empty a service
\* message with the empty-message notice; classified HasTimeToLive a
\* service message; classified Good or without media a content message;
\* a service payload a content message if and only if its action is a
\* phone call, a service message otherwise; an empty payload a service
\* message with date 0.
C22_CreateDispatch ==
    Created =>
      /\ ContentMessage # ServiceMessage
      /\ call.in.ctor = "message" =>
           /\ Classified = Unsupported =>
                /\ ContentMessage
                /\ f_post_author \notin call.result.flags
                /\ f_legacy \in call.result.flags
           /\ Classified = Empty =>
                /\ ServiceMessage
                /\ call.result.text = lng_message_empty
           /\ Classified = HasTimeToLive => ServiceMessage
           /\ Classified = Good => ContentMessage
      /\ call.in.ctor = "messageService" =>
           /\ ContentMessage <=> call.in.action = "messageActionPhoneCall"
           /\ ~ContentMessage => ServiceMessage
      /\ call.in.ctor = "messageEmpty" =>
           /\ ServiceMessage
           /\ call.result.date = 0

\* a webpage that is not modified, sent with a post author and a date
C22_Witness ==
    /\ Created
    /\ call.in.ctor = "message"
    /\ call.in.media.type = "messageMediaWebPage"
    /\ Classified = Unsupported
    /\ f_post_author \in call.in.flags
    /\ call.in.date > 0
    /\ ContentMessage
    /\ call.result.date = call.in.date
    /\ f_post_author \notin call.result.flags


PhotoOrDocument ==
    /\ Checked
    /\ call.in.type \in {"messageMediaPhoto", "messageMediaDocument"}

\* the photo or document field of the payload classified
MediaBody ==
    IF call.in.type = "messageMediaPhoto" THEN call.in.photo
    ELSE call.in.document

\* C28: in CheckMessageMedia the time-to-live check comes before the body
\* check: a photo or document payload with ttl_seconds classifies as
\* HasTimeToLive even when its body is absent or empty, and a missing body
\* classifies as Empty only when ttl_seconds is absent.
C28_TimeToLiveFirst ==
    PhotoOrDocument =>
      /\ call.in.ttl_seconds => call.result = HasTimeToLive
      /\ (MediaBody = "absent" /\ ~call.in.ttl_seconds)
           => call.result = Empty
      /\ (MediaBody = "absent" /\ call.result = Empty)
           => ~call.in.ttl_seconds

\* a document with ttl_seconds and no body has been classified
C28_Witness ==
    /\ PhotoOrDocument
    /\ call.in.type = "messageMediaDocument"
    /\ MediaBody = "absent"
    /\ call.in.ttl_seconds
    /\ call.result = HasTimeToLive


\* ------------------------------------------------------------------
\* Display-text summaries: notificationText() and inDialogsText(way).
\* A text is a sequence of characters.

kNotificationTextLimit == 255

MaxTextLen == 300

\* the start of a text command, as textcmdLink writes and Clean removes
TextCommand == "TextCommand"

Alphabet == <<"a", "b", TextCommand>>

\* a text of n characters that differ along its length
TextOfSize(n) == [i \in 1..n |-> Alphabet[(i % Len(Alphabet)) + 1]]

TextSizes ==
    {0, 1, 200, kNotificationTextLimit - 1, kNotificationTextLimit,
     kNotificationTextLimit + 1, MaxTextLen}

Texts == {TextOfSize(n) : n \in TextSizes}

\* qsl("...")
Ellipsis == <<".", ".", ".">>

\* QString::mid(position, n)
mid(text, position, n) ==
    SubSeq(text, position + 1,
           IF position + n < Len(text) THEN position + n ELSE Len(text))

\* TextUtilities::Clean: a text command character becomes a space
Clean(text) ==
    [i \in 1..Len(text) |-> IF text[i] = TextCommand THEN " " ELSE text[i]]

emptyText(text) == Len(text) = 0

\* what the two summaries read: whether the item has media, the media's
\* own summary (notificationText() or chatListText()), and the item text
SummaryInputs ==
    [media : {FALSE}, mediaText : {<<>>}, text : Texts]
    \cup [media : {TRUE}, mediaText : Texts,
          text : {TextOfSize(0), TextOfSize(1)}]

notificationTextStrictLimit(in) ==
    LET result == IF in.media THEN in.mediaText
                  ELSE IF ~emptyText(in.text) THEN in.text
                  ELSE <<>>
    IN  IF Len(result) < kNotificationTextLimit
          THEN result
          ELSE mid(result, 0, kNotificationTextLimit) \o Ellipsis

notificationText(in) ==
    LET result == IF in.media THEN in.mediaText
                  ELSE IF ~emptyText(in.text) THEN in.text
                  ELSE <<>>
    IN  IF Len(result) <= kNotificationTextLimit
          THEN result
          ELSE mid(result, 0, kNotificationTextLimit) \o Ellipsis

\* textcmdLink(1, text)
textcmdLink(text) == <<TextCommand>> \o text \o <<TextCommand>>

lng_in_dlg_album == <<"A", "l", "b", "u", "m">>

lng_from_you == <<"Y", "o", "u">>

shortName == <<"N", "a", "m", "e">>

\* lng_dialogs_text_with_from: the sender part, then the message
lng_dialogs_text_with_from(fromPart, message) ==
    fromPart \o <<":", " ">> \o message

\* what inDialogsText reads besides the summary inputs
InDialogsInputs ==
    [way : {"Normal", "WithoutSender"}, isPost : BOOLEAN,
     logEntry : BOOLEAN, forwarded : BOOLEAN,
     displayFrom : {"none", "self", "other"},
     senderOriginal : {"self", "other"}]

isEmpty(in) ==
    /\ Len(in.text) = 0
    /\ ~in.media
    /\ ~in.logEntry

getText(it, in) ==
    IF in.media
      THEN IF it.groupId # 0
             THEN textcmdLink(Clean(lng_in_dlg_album))
             ELSE in.mediaText
    ELSE IF ~emptyText(in.text) THEN Clean(in.text)
    ELSE <<>>

\* the sender shown before the text, "none" for nullptr
sender(p, it, in) ==
    IF in.isPost \/ isEmpty(in) \/ in.way = "WithoutSender" THEN "none"
    ELSE IF p.type # "user" \/ f_out \in it.flags THEN in.displayFrom
    ELSE IF p.self /\ ~in.forwarded THEN in.senderOriginal
    ELSE "none"

inDialogsText(p, it, in) ==
    LET plainText == getText(it, in)
        from == sender(p, it, in)
    IN  IF from # "none"
          THEN LET fromText == IF from = "self" THEN lng_from_you
                                                ELSE shortName
               IN  lng_dialogs_text_with_from(
                       textcmdLink(Clean(fromText)), plainText)
          ELSE plainText

\* one notificationText() of the item
NotificationText ==
    /\ call = NoCall
    /\ Exists
    /\ aborted = "none"
    /\ \E in \in SummaryInputs :
          call' = [fn |-> "notificationText", in |-> in,
                   result |-> notificationText(in)]
    /\ UNCHANGED <<peer, item, localMessages, groups, inboxReadBefore,
                   outboxReadBefore, events, aborted>>

\* one inDialogsText(way) of the item
InDialogsText ==
    /\ call = NoCall
    /\ Exists
    /\ aborted = "none"
    /\ \E summary \in SummaryInputs, more \in InDialogsInputs :
          LET in == [media |-> summary.media,
                     mediaText |-> summary.mediaText,
                     text |-> summary.text,
                     way |-> more.way, isPost |-> more.isPost,
                     logEntry |-> more.logEntry,
                     forwarded |-> more.forwarded,
                     displayFrom |-> more.displayFrom,
                     senderOriginal |-> more.senderOriginal]
          IN  call' = [fn |-> "inDialogsText", in |-> in,
                       result |-> inDialogsText(peer, item, in)]
    /\ UNCHANGED <<peer, item, localMessages, groups, inboxReadBefore,
                   outboxReadBefore, events, aborted>>

\* a constructed item, alone or in an album, in any of the conversations
InitText ==
    /\ peer \in Peers
    /\ \E id \in {-MaxMsgId, MaxMsgId}, flags \in SUBSET {f_out},
          groupId \in {0} \cup GroupIds :
          /\ item = [id |-> id, flags |-> flags, groupId |-> groupId,
                     inlineKeyboard |-> 0]
          /\ localMessages = ConstructorLocalMessages({}, id)
          /\ groups = IF groupId # 0 THEN {this} ELSE {}
    /\ inboxReadBefore = 1
    /\ outboxReadBefore = 1
    /\ events = <<>>
    /\ aborted = "none"
    /\ call = NoCall

NextText ==
    \/ NotificationText
    \/ InDialogsText

SpecText == InitText /\ [][NextText]_vars

\* ------------------------------------------------------------------
\* Properties of the display-text summaries

\* the summary notificationText() starts from
UnderlyingSummary ==
    IF call.in.media THEN call.in.mediaText ELSE call.in.text

\* C23: notificationText() returns the underlying summary unchanged when
\* its length is at most 255 characters, and otherwise its first 255
\* characters followed by the ellipsis marker.
C23_NotificationTextLimit ==
    call.fn = "notificationText" =>
        IF Len(UnderlyingSummary) <= kNotificationTextLimit
          THEN call.result = UnderlyingSummary
          ELSE /\ Len(call.result)
                    = kNotificationTextLimit + Len(Ellipsis)
               /\ \A i \in 1..kNotificationTextLimit :
                     call.result[i] = UnderlyingSummary[i]
               /\ \A i \in 1..Len(Ellipsis) :
                     call.result[kNotificationTextLimit + i] = Ellipsis[i]

\* a text of exactly 255 characters is returned whole
C23_Witness ==
    /\ call.fn = "notificationText"
    /\ ~call.in.media
    /\ Len(call.in.text) = kNotificationTextLimit
    /\ call.result = call.in.text

\* the text is within the budget: at most 255 characters, or 255
\* characters and the ellipsis marker
WithinBudget(text) ==
    \/ Len(text) <= kNotificationTextLimit
    \/ /\ Len(text) = kNotificationTextLimit + Len(Ellipsis)
       /\ SubSeq(text, kNotificationTextLimit + 1, Len(text)) = Ellipsis

\* C24: both summaries, notificationText() and inDialogsText(), are
\* bounded to the 255-character budget: each returns at most 255
\* characters of content, truncated with an ellipsis marker when the
\* underlying text is longer.
C24_SummariesBounded ==
    call.fn \in {"notificationText", "inDialogsText"}
        => WithinBudget(call.result)


\* ------------------------------------------------------------------
\* Further properties of the item's life cycle

\* C25: setGroupId succeeds only on a message that has no group id yet:
\* a setGroupId on a message whose group id is set fails fast and leaves
\* the group id unchanged, so a group id is assigned at most once.
C25_GroupIdAssignedOnce ==
    [][/\ item.groupId # 0 => item'.groupId = item.groupId
       /\ ((\E g \in GroupIds : SetGroupId(g)) /\ item.groupId # 0)
            => (aborted' = "setGroupId" /\ item' = item)]_vars

\* a second setGroupId has failed fast on a grouped message
C25_Witness ==
    /\ aborted = "setGroupId"
    /\ item.groupId \in GroupIds
    /\ this \in groups

\* C26: over any sequence of construction, setRealId and sendFailed, a
\* message with a server-range id is never in the conversation's
\* local-message index and a message with a client-range id always is.
C26_LocalIndexConsistent ==
    Exists =>
        /\ item.id \in ServerMsgIds => this \notin localMessages
        /\ item.id \in ClientMsgIds => this \in localMessages

\* a failed message is still registered
C26_Witness ==
    /\ Exists
    /\ f_failed \in item.flags
    /\ item.id \in ClientMsgIds
    /\ this \in localMessages

\* C27: canDeleteForEveryone(now) is false for every message whose peer
\* is a channel, broadcast channel and megagroup alike, whatever the
\* actor's rights, the message's age, direction, kind or media are.
C27_ChannelNeverRevocable ==
    (Revoked /\ peer.type = "channel") => ~call.result

\* a fresh outgoing content message of a megagroup has been refused
C27_Witness ==
    /\ Revoked
    /\ peer.type = "channel"
    /\ peer.megagroup
    /\ item.id \in ServerMsgIds
    /\ f_out \in item.flags
    /\ Age < Threshold
    /\ ~call.in.isPost
    /\ call.in.toHistoryMessage
    /\ call.in.media = "none"
    /\ ~call.result

\* the notifications one step has added to the log
Delivered == SubSeq(events', Len(events) + 1, Len(events'))

\* C29: inside setRealId the id-change notification is delivered only
\* after the message holds the new id, pending-send is cleared and, for a
\* server-range new id, the message is unregistered from the local
\* index; the inline keyboard's message-id update and the repaint request
\* come only after that notification.
C29_SetRealIdOrdering ==
    [][\A newId \in MsgIds :
         (SetRealId(newId) /\ aborted' = "none") =>
            /\ Len(Delivered) >= 2
            /\ Delivered[1].type = "ItemIdChange"
            /\ Delivered[1].seen.id = newId
            /\ ~Delivered[1].seen.sending
            /\ newId \in ServerMsgIds => ~Delivered[1].seen.registered
            /\ \A i \in 2..Len(Delivered) :
                  Delivered[i].type \in {"UpdateMessageId", "ItemRepaint"}
            /\ Delivered[Len(Delivered)].type = "ItemRepaint"]_vars

\* a message with an inline keyboard has been confirmed: three
\* notifications, the first seeing the new id outside the local index
C29_Witness ==
    /\ Len(events) >= 3
    /\ events[1].type = "ItemIdChange"
    /\ events[1].seen.id \in ServerMsgIds
    /\ events[1].oldId \in ClientMsgIds
    /\ ~events[1].seen.registered
    /\ events[2].type = "UpdateMessageId"
    /\ events[3].type = "ItemRepaint"

\* an outgoing message whose send has failed, outside the self-chat and
\* outside converted chats
FailedOutgoing ==
    /\ Exists
    /\ f_failed \in item.flags
    /\ f_out \in item.flags
    /\ ~peer.self
    /\ ~peer.migrateTo

\* a peer whose outgoing messages count as read once sent
BotOrBroadcast ==
    \/ (peer.type = "user" /\ peer.bot)
    \/ (peer.type = "channel" /\ ~peer.megagroup)

\* C30: an outgoing message that went from provisional to failed, in a
\* conversation neither self-chat nor migrated, is unread in every later
\* state, whatever the read position becomes; an outgoing message that
\* went from provisional to confirmed to a bot or a non-megagroup channel
\* is read immediately after the transition.
C30_FailedStaysUnread ==
    /\ [](FailedOutgoing => unread)
    /\ [][\A newId \in ServerMsgIds :
            (/\ SetRealId(newId)
             /\ aborted' = "none"
             /\ f_out \in item.flags
             /\ BotOrBroadcast) => ~unread']_vars

\* a failed outgoing message, unread with the read position at its end
C30_Witness ==
    /\ FailedOutgoing
    /\ outboxReadBefore = MaxMsgId + 1
    /\ unread

====
